---- MODULE Spec2Model ----
(***************************************************************************)
(* Model of dagger's Python client code generator                          *)
(* (sdk/python/src/dagger/codegen.py): generate(schema, sync) and the      *)
(* type resolvers, field models and handlers it drives, followed by the    *)
(* behaviour of the generated methods when they are chained.               *)
(***************************************************************************)
EXTENDS Integers, Sequences, FiniteSets, TLC

VARIABLES schema, sync, pc, id_map, all_types, idx, blocks, result, chain

vars == <<schema, sync, pc, id_map, all_types, idx, blocks, result, chain>>

(***************************************************************************)
(* Bounds of the explored schemas and call chains.                         *)
(***************************************************************************)
MaxWrap == 3
MaxArgs == 3
MaxChain == 3

(***************************************************************************)
(* Sequence helpers.                                                        *)
(***************************************************************************)
Range(s) == {s[i] : i \in 1..Len(s)}

SeqsUpTo(S, n) == UNION {[1..k -> S] : k \in 0..n}

(***************************************************************************)
(* The graphql-core values the generator reads.  A type reference is a     *)
(* chain of wrappers (outermost first) around a named type.                *)
(***************************************************************************)
NonNull == "NonNull"
List == "List"
Undefined == "<Undefined>"
None == "<None>"

Named(n) == [wraps |-> <<>>, name |-> n]
Wrap(w, t) == [wraps |-> <<w>> \o t.wraps, name |-> t.name]
of_type(t) == [wraps |-> Tail(t.wraps), name |-> t.name]

\* The named types of the explored schemas and their graphql kind.
KindOf ==
    [n \in {"String", "ContainerID", "__Opaque"} |-> "scalar"]
    @@ [n \in {"CacheSharingMode", "__TypeKind"} |-> "enum"]
    @@ [n \in {"BuildArg", "__Args"} |-> "input"]
    @@ [n \in {"Query", "Container", "File", "__Type"} |-> "object"]

\* Type names in ascending Python str order (code points: "Q" < "S" < "_").
SortedNames ==
    <<"BuildArg", "CacheSharingMode", "Container", "ContainerID", "File",
      "Query", "String", "__Args", "__Opaque", "__Type", "__TypeKind">>

NameRank(n) == CHOOSE i \in 1..Len(SortedNames) : SortedNames[i] = n

\* Names starting with the introspection prefix "__" (str.startswith("__")).
DunderNames == {"__Args", "__Opaque", "__Type", "__TypeKind"}

startswith_dunder(n) == n \in DunderNames

\* Scalars.__members__ and Scalars.from_type
ScalarsMembers ==
    [ID |-> "str", Int |-> "int", String |-> "str", Float |-> "float",
     Boolean |-> "bool", Date |-> "date", DateTime |-> "datetime",
     Time |-> "time", Decimal |-> "Decimal"]

Scalars_from_type(n) ==
    IF n \in DOMAIN ScalarsMembers THEN ScalarsMembers[n] ELSE n

(***************************************************************************)
(* Type guards.                                                             *)
(***************************************************************************)
is_required_type(t) == t.wraps # <<>> /\ Head(t.wraps) = NonNull

is_list_type(t) == t.wraps # <<>> /\ Head(t.wraps) = List

is_wrapping_type(t) == t.wraps # <<>>

is_scalar_type(t) == t.wraps = <<>> /\ KindOf[t.name] = "scalar"

is_input_object_type(t) == t.wraps = <<>> /\ KindOf[t.name] = "input"

is_object_type(t) == t.wraps = <<>> /\ KindOf[t.name] = "object"

is_leaf_type(t) == t.wraps = <<>> /\ KindOf[t.name] \in {"scalar", "enum"}

RECURSIVE is_output_leaf_type(_)
is_output_leaf_type(t) ==
    is_leaf_type(t) \/ (is_wrapping_type(t) /\ is_output_leaf_type(of_type(t)))

RECURSIVE is_custom_scalar_type(_)
is_custom_scalar_type(t) ==
    IF is_wrapping_type(t)
    THEN is_custom_scalar_type(of_type(t))
    ELSE is_scalar_type(t) /\ t.name \notin DOMAIN ScalarsMembers

(***************************************************************************)
(* Name Formatter.  The wire names of the explored schemas are single      *)
(* lower-case words, which the acronym rewrite and camel_to_snake leave    *)
(* unchanged; the keyword rule is the one that acts.                       *)
(***************************************************************************)
PyKeywords == {"from", "import", "with", "class", "def", "return", "if"}

format_name(s) == IF s \in PyKeywords THEN s \o "_" ELSE s

(***************************************************************************)
(* Type Reference Resolver.  A raised exception is a result that every     *)
(* caller passes on.                                                        *)
(***************************************************************************)
AttributeError == "!AttributeError"
AssertionError == "!AssertionError"
Exceptions == {AttributeError, AssertionError}

Raised(s) == s \in Exceptions

\* fmt % s, with s possibly a raised exception
Fmt(optional, s) ==
    IF Raised(s) THEN s ELSE IF optional THEN s \o " | None" ELSE s

\* Mutant: custom scalars are never replaced through the id map
RECURSIVE format_input_type_nosubst(_, _)
format_input_type_nosubst(t, idm) ==
    LET opt == ~is_required_type(t)
        u == IF is_required_type(t) THEN of_type(t) ELSE t
    IN  IF is_list_type(u)
        THEN LET e == format_input_type_nosubst(of_type(u), idm)
             IN  Fmt(opt, IF Raised(e) THEN e ELSE "list[" \o e \o "]")
        ELSE IF is_custom_scalar_type(u)
        THEN IF is_wrapping_type(u) THEN AttributeError
             ELSE Fmt(opt, Scalars_from_type(u.name))
        ELSE IF is_scalar_type(u) THEN Fmt(opt, Scalars_from_type(u.name))
        ELSE IF is_required_type(u) THEN AssertionError
        ELSE Fmt(opt, u.name)

\* Mutant: a NonNull directly inside a NonNull is unwrapped instead of raising
RECURSIVE format_input_type_lenient(_, _)
format_input_type_lenient(t, idm) ==
    LET opt == ~is_required_type(t)
        u == IF is_required_type(t) THEN of_type(t) ELSE t
    IN  IF is_list_type(u)
        THEN LET e == format_input_type_lenient(of_type(u), idm)
             IN  Fmt(opt, IF Raised(e) THEN e ELSE "list[" \o e \o "]")
        ELSE IF is_required_type(u) THEN format_input_type_lenient(u, idm)
        ELSE IF is_custom_scalar_type(u)
        THEN IF u.name \in DOMAIN idm THEN Fmt(opt, idm[u.name])
             ELSE Fmt(opt, Scalars_from_type(u.name))
        ELSE IF is_scalar_type(u) THEN Fmt(opt, Scalars_from_type(u.name))
        ELSE Fmt(opt, u.name)

RECURSIVE format_input_type(_, _)
format_input_type(t, idm) ==
    LET opt == ~is_required_type(t)
        u == IF is_required_type(t) THEN of_type(t) ELSE t
    IN  IF is_list_type(u)
        THEN LET e == format_input_type(of_type(u), idm)
             IN  Fmt(opt, IF Raised(e) THEN e ELSE "list[" \o e \o "]")
        ELSE IF is_custom_scalar_type(u)
        THEN \* evaluating t.name on a wrapper raises
             IF is_wrapping_type(u) THEN AttributeError
             ELSE IF u.name \in DOMAIN idm THEN Fmt(opt, idm[u.name])
             ELSE Fmt(opt, Scalars_from_type(u.name))
        ELSE IF is_scalar_type(u) THEN Fmt(opt, Scalars_from_type(u.name))
        ELSE IF is_required_type(u) THEN AssertionError
        ELSE Fmt(opt, u.name)

EmptyMap == [n \in {} |-> ""]

\* Mutant: leaf return types lose their wrappers like non-leaf ones
format_output_type_bare(t) ==
    IF is_scalar_type(Named(t.name)) THEN Scalars_from_type(t.name) ELSE t.name

RECURSIVE format_output_type(_)
format_output_type(t) ==
    IF is_output_leaf_type(t) THEN format_input_type(t, EmptyMap)
    ELSE IF is_wrapping_type(t) THEN format_output_type(of_type(t))
    ELSE IF is_scalar_type(t) THEN Scalars_from_type(t.name) ELSE t.name

(***************************************************************************)
(* The explored schemas.  A field declaration carries its wire name, type  *)
(* reference, explicit default (or Undefined) and arguments; a named type  *)
(* its name, kind and fields; type_map lists the named types in the        *)
(* schema's registration order.                                             *)
(***************************************************************************)
FieldDecl(n, t, d, a) == [name |-> n, type |-> t, default_value |-> d, args |-> a]

NamedType(n, fs) == [name |-> n, kind |-> KindOf[n], fields |-> fs]

RefNames ==
    {"String", "ContainerID", "CacheSharingMode", "BuildArg", "Container",
     "Query", "__Type"}

WrapChains == SeqsUpTo({NonNull, List}, MaxWrap)

TypeRefs == {[wraps |-> w, name |-> n] : w \in WrapChains, n \in RefNames}

Required(n) == Wrap(NonNull, Named(n))

\* Argument lists a1, a2, ...: each required or optional, with no explicit
\* default, an explicit null or an explicit string.
ArgShapes == {<<r, d>> : r \in BOOLEAN, d \in {Undefined, None, "v"}}

ArgOf(i, shape) ==
    FieldDecl("a" \o ToString(i),
              IF shape[1] THEN Required("String") ELSE Named("String"),
              shape[2], <<>>)

ArgLists == {[i \in 1..Len(s) |-> ArgOf(i, s[i])] : s \in SeqsUpTo(ArgShapes, MaxArgs)}

Positions == {"ret", "arg", "input"}
ProbeNames == {"id", "from"}
Dups == {"none", "before", "after"}

\* The schema with reference R placed at position pos under wire name pname,
\* a second owner of ContainerID (File) registered before or after Container,
\* and the declarations L as the arguments of Container.build and the fields
\* of BuildArg.
MakeSchema(R, pos, pname, dup, L) ==
    LET probe == FieldDecl(pname, R, Undefined, <<>>)
        idf == FieldDecl("id", Required("ContainerID"), Undefined, <<>>)
        build == FieldDecl("build", Required("Container"), Undefined,
                           (IF pos = "arg" THEN <<probe>> ELSE <<>>) \o L)
        stdout == FieldDecl("stdout", Required("String"), Undefined, <<>>)
        container ==
            NamedType("Container",
                IF pos = "ret"
                THEN IF pname = "id" THEN <<probe, build, stdout>>
                     ELSE <<idf, probe, build, stdout>>
                ELSE <<idf, build, stdout>>)
        file == NamedType("File", <<idf>>)
        query ==
            NamedType("Query",
                <<FieldDecl("container", Named("Container"), Undefined, <<>>)>>
                \o (IF dup = "none" THEN <<>>
                    ELSE <<FieldDecl("file", Named("File"), Undefined, <<>>)>>))
        owners == CASE dup = "none" -> <<container>>
                    [] dup = "before" -> <<file, container>>
                    [] dup = "after" -> <<container, file>>
        buildarg ==
            NamedType("BuildArg",
                (IF pos = "input" THEN <<probe>> ELSE <<>>) \o L)
        intro ==
            <<NamedType("__Type",
                  <<FieldDecl("name", Named("String"), Undefined, <<>>)>>),
              NamedType("__TypeKind", <<>>),
              NamedType("__Args",
                  <<FieldDecl("name", Required("String"), Undefined, <<>>)>>),
              NamedType("__Opaque", <<>>)>>
    IN  [type_map |->
            <<query>> \o owners
            \o <<NamedType("String", <<>>), buildarg,
                 NamedType("ContainerID", <<>>),
                 NamedType("CacheSharingMode", <<>>)>>
            \o intro]

(***************************************************************************)
(* Id Map Builder (the first loop of generate).  The result is the map, or *)
(* an AttributeError raised when an id field's type is still a wrapper      *)
(* after one unwrapping and has no name.                                    *)
(***************************************************************************)
Put(m, k, v) == [x \in DOMAIN m \cup {k} |-> IF x = k THEN v ELSE m[x]]

RECURSIVE id_map_fields(_, _, _)
id_map_fields(r, type_name, fs) ==
    IF r.raised \/ fs = <<>> THEN r
    ELSE LET f == Head(fs)
             ft == IF is_wrapping_type(f.type) THEN of_type(f.type) ELSE f.type
         IN  IF f.name # "id" THEN id_map_fields(r, type_name, Tail(fs))
             ELSE IF is_wrapping_type(ft) THEN [r EXCEPT !.raised = TRUE]
             ELSE id_map_fields([r EXCEPT !.map = Put(@, ft.name, type_name)],
                                type_name, Tail(fs))

RECURSIVE id_map_types(_, _)
id_map_types(r, types) ==
    IF r.raised \/ types = <<>> THEN r
    ELSE LET t == Head(types)
         IN  IF ~is_object_type(Named(t.name)) THEN id_map_types(r, Tail(types))
             ELSE id_map_types(id_map_fields(r, t.name, t.fields), Tail(types))

build_id_map(types) == id_map_types([raised |-> FALSE, map |-> EmptyMap], types)

(***************************************************************************)
(* Stable sort by a numeric key (Python's sorted): an element is inserted  *)
(* after every element whose key is not greater than its own.              *)
(***************************************************************************)
RECURSIVE insert_sorted(_, _)
insert_sorted(x, s) ==
    IF s = <<>> THEN <<x>>
    ELSE IF Head(s).key <= x.key THEN <<Head(s)>> \o insert_sorted(x, Tail(s))
    ELSE <<x>> \o s

RECURSIVE sort_pairs(_)
sort_pairs(s) ==
    IF s = <<>> THEN <<>>
    ELSE insert_sorted(s[Len(s)], sort_pairs(SubSeq(s, 1, Len(s) - 1)))

\* sorted(s, key=...), given the elements paired with their keys
sorted(pairs) ==
    LET ps == sort_pairs(pairs)
    IN  [i \in 1..Len(ps) |-> ps[i].val]

(***************************************************************************)
(* Input Field Model (_InputField).                                         *)
(***************************************************************************)
pyrepr(v) == IF v = None THEN "None" ELSE "'" \o v \o "'"

explicit_default(gql) == gql.default_value # Undefined

\* Mutant: the implicit default is synthesized for required types as well
implicit_default_any(gql) == ~explicit_default(gql)

implicit_default(gql) == ~is_required_type(gql.type) /\ ~explicit_default(gql)

InputField(name, gql, idm) ==
    [graphql_name |-> name,
     graphql |-> gql,
     name |-> format_name(name),
     type |-> format_input_type(gql.type, IF name # "id" THEN idm ELSE EmptyMap),
     has_default |-> explicit_default(gql) \/ implicit_default(gql),
     default_value |-> IF implicit_default(gql) THEN None ELSE gql.default_value]

\* "name: type" or "name: type = default", with the components of the text
as_param(f) ==
    LET type_ == IF is_custom_scalar_type(f.graphql.type)
                 THEN "\"" \o f.type \o "\"" ELSE f.type
        out == f.name \o ": " \o type_
    IN  [name |-> f.name,
         type |-> type_,
         has_default |-> f.has_default,
         text |-> IF f.has_default
                  THEN out \o " = " \o pyrepr(f.default_value) ELSE out]

\* Arg('graphql_name', name) or Arg('graphql_name', name, default)
as_arg(f) ==
    [graphql_name |-> f.graphql_name,
     name |-> f.name,
     params |-> IF f.has_default THEN 3 ELSE 2,
     text |-> "Arg('" \o f.graphql_name \o "', " \o f.name
              \o (IF f.has_default THEN ", " \o pyrepr(f.default_value) ELSE "")
              \o "),"]

InputFields(decls, idm) ==
    [i \in 1..Len(decls) |-> InputField(decls[i].name, decls[i], idm)]

AnyRaised(fs) == \E i \in 1..Len(fs) : Raised(fs[i].type)

(***************************************************************************)
(* Output Field Model (_ObjectField).                                       *)
(***************************************************************************)
has_default_key(f) == IF f.has_default THEN 1 ELSE 0

\* Mutant: the arguments are left in schema order
sorted_args_unsorted(decls, idm) == InputFields(decls, idm)

by_has_default(fs) ==
    [i \in 1..Len(fs) |-> [key |-> has_default_key(fs[i]), val |-> fs[i]]]

sorted_args(decls, idm) == sorted(by_has_default(InputFields(decls, idm)))

ObjectField(name, field, idm, sync_) ==
    [graphql_name |-> name,
     graphql |-> field,
     sync |-> sync_,
     name |-> format_name(name),
     args |-> sorted_args(field.args, idm),
     is_leaf |-> is_output_leaf_type(field.type),
     is_custom_scalar |-> is_custom_scalar_type(field.type),
     type |-> format_output_type(field.type)]

func_signature(o) ==
    [name |-> o.name,
     params |-> [i \in 1..Len(o.args) |-> as_param(o.args[i])],
     async |-> o.is_leaf /\ ~o.sync,
     ret_type |-> IF ~o.is_leaf THEN "\"" \o o.type \o "\"" ELSE o.type]

\* Mutant: every generated method executes, leaf or not
func_body_eager(o) ==
    <<[op |-> "_args", args |-> [i \in 1..Len(o.args) |-> as_arg(o.args[i])]],
      [op |-> "_select", name |-> o.graphql_name],
      [op |-> "await execute", type |-> o.type]>>
    \o (IF o.is_leaf THEN <<>> ELSE <<[op |-> "return handle", type |-> o.type]>>)

\* The statements of the generated method, in order.
func_body(o) ==
    <<[op |-> "_args", args |-> [i \in 1..Len(o.args) |-> as_arg(o.args[i])]],
      [op |-> "_select", name |-> o.graphql_name]>>
    \o (IF o.is_leaf
        THEN IF o.sync THEN <<[op |-> "execute_sync", type |-> o.type]>>
             ELSE <<[op |-> "await execute", type |-> o.type]>>
        ELSE <<[op |-> "return handle", type |-> o.type]>>)

ObjectFields(decls, idm, sync_) ==
    [i \in 1..Len(decls) |-> ObjectField(decls[i].name, decls[i], idm, sync_)]

\* An exception raised while the field model of o was constructed
ObjectFieldRaised(o) == AnyRaised(o.args) \/ Raised(o.type)

(***************************************************************************)
(* Category Handlers.                                                       *)
(***************************************************************************)
Handlers == <<"Scalar", "Input", "Object">>

predicate(h, t) ==
    CASE h = "Scalar" -> is_custom_scalar_type(Named(t.name))
      [] h = "Input" -> is_input_object_type(Named(t.name))
      [] h = "Object" -> is_object_type(Named(t.name))

render_head(t) ==
    IF t.name = "Query"
    THEN [name |-> "Client", base |-> "Root", text |-> "class Client(Root):"]
    ELSE [name |-> t.name, base |-> "Type",
          text |-> "class " \o t.name \o "(Type):"]

\* Mutant: the fields of an input object are sorted like method arguments
input_members_sorted(t, idm) ==
    LET fs == sorted(by_has_default(InputFields(t.fields, idm)))
    IN  [i \in 1..Len(fs) |-> as_param(fs[i])]

input_members(t, idm) ==
    LET fs == InputFields(t.fields, idm)
    IN  [i \in 1..Len(fs) |-> as_param(fs[i])]

object_members(t, idm, sync_) ==
    LET fs == ObjectFields(t.fields, idm, sync_)
    IN  [i \in 1..Len(fs) |->
            [graphql_name |-> fs[i].graphql_name,
             sig |-> func_signature(fs[i]),
             body |-> func_body(fs[i])]]

\* Handler.render: the declaration a handler writes for named type t
render(h, t, idm, sync_) ==
    CASE h = "Scalar" ->
           [handler |-> h, graphql_name |-> t.name, name |-> t.name,
            head |-> t.name \o " = NewType(\"" \o t.name \o "\", str)",
            members |-> <<>>]
      [] h = "Input" ->
           [handler |-> h, graphql_name |-> t.name, name |-> render_head(t).name,
            head |-> render_head(t).text,
            members |-> input_members(t, idm)]
      [] h = "Object" ->
           [handler |-> h, graphql_name |-> t.name, name |-> render_head(t).name,
            head |-> render_head(t).text,
            members |-> object_members(t, idm, sync_)]

\* Whether rendering t with handler h raises
render_raises(h, t, idm, sync_) ==
    CASE h = "Scalar" -> FALSE
      [] h = "Input" -> AnyRaised(InputFields(t.fields, idm))
      [] h = "Object" ->
           LET fs == ObjectFields(t.fields, idm, sync_)
           IN  \E i \in 1..Len(fs) : ObjectFieldRaised(fs[i])

(***************************************************************************)
(* Emitter (generate).                                                      *)
(***************************************************************************)
NoHandler == "None"

group_key(t) ==
    IF \E i \in 1..Len(Handlers) : predicate(Handlers[i], t)
    THEN Handlers[CHOOSE i \in 1..Len(Handlers) :
                      /\ predicate(Handlers[i], t)
                      /\ \A j \in 1..(i - 1) : ~predicate(Handlers[j], t)]
    ELSE NoHandler

handler_index(t) ==
    IF group_key(t) = NoHandler THEN -1
    ELSE (CHOOSE i \in 1..Len(Handlers) : Handlers[i] = group_key(t)) - 1

\* Mutant: the sort key leaves the name out
sort_key_no_name(t) == handler_index(t) + 1

\* The tuple (i, t.name) as one number ordered the same way
sort_key(t) == (handler_index(t) + 1) * (Len(SortedNames) + 1) + NameRank(t.name)

\* Mutant: the reserved prefix is not tested
skipped_no_prefix(h, t) == h = NoHandler

skipped(h, t) == h = NoHandler \/ startswith_dunder(t.name)

Preamble == "# Code generated by dagger. DO NOT EDIT."

NoResult == "<no result>"

\* graphql-core accepts output types (scalar, enum, object) for fields and
\* input types (scalar, enum, input object) for arguments and input fields.
ValidAt(R, pos) ==
    IF pos = "ret" THEN KindOf[R.name] \in {"scalar", "enum", "object"}
    ELSE KindOf[R.name] \in {"scalar", "enum", "input"}

NewChain ==
    [handle |-> "Client", path |-> <<>>, nonleaf |-> 0, leaf |-> 0,
     executions |-> 0, status |-> "handle"]

Init ==
    /\ \E R \in TypeRefs, pos \in Positions, pname \in ProbeNames,
          dup \in Dups, L \in ArgLists :
          /\ ValidAt(R, pos)
          /\ L = <<>> \/ (R = Required("String") /\ pos = "ret"
                          /\ pname = "from" /\ dup = "none")
          /\ schema = MakeSchema(R, pos, pname, dup, L)
    /\ sync \in BOOLEAN
    /\ pc = "id_map"
    /\ id_map = EmptyMap
    /\ all_types = <<>>
    /\ idx = 1
    /\ blocks = <<>>
    /\ result = NoResult
    /\ chain = NewChain

\* lines 96-109: the id map is built in one pass over the type map
BuildIdMap ==
    /\ pc = "id_map"
    /\ ~build_id_map(schema.type_map).raised
    /\ id_map' = build_id_map(schema.type_map).map
    /\ blocks' = <<Preamble>>
    /\ pc' = "sort"
    /\ UNCHANGED <<schema, sync, all_types, idx, result, chain>>

BuildIdMapRaises ==
    /\ pc = "id_map"
    /\ build_id_map(schema.type_map).raised
    /\ pc' = "raised"
    /\ UNCHANGED <<schema, sync, id_map, all_types, idx, blocks, result, chain>>

\* line 128
SortTypes ==
    /\ pc = "sort"
    /\ all_types' = sorted([i \in 1..Len(schema.type_map) |->
                               [key |-> sort_key(schema.type_map[i]),
                                val |-> schema.type_map[i]]])
    /\ idx' = 1
    /\ pc' = "render"
    /\ UNCHANGED <<schema, sync, id_map, blocks, result, chain>>

\* lines 130-133: a type with no handler or a reserved name is passed over
SkipType ==
    /\ pc = "render"
    /\ idx <= Len(all_types)
    /\ skipped(group_key(all_types[idx]), all_types[idx])
    /\ idx' = idx + 1
    /\ UNCHANGED <<schema, sync, pc, id_map, all_types, blocks, result, chain>>

\* line 134
RenderType ==
    /\ pc = "render"
    /\ idx <= Len(all_types)
    /\ LET t == all_types[idx]
           h == group_key(t)
       IN  /\ ~skipped(h, t)
           /\ ~render_raises(h, t, id_map, sync)
           /\ blocks' = Append(blocks, render(h, t, id_map, sync))
    /\ idx' = idx + 1
    /\ UNCHANGED <<schema, sync, pc, id_map, all_types, result, chain>>

\* line 134, when a resolver raises: the exception leaves generate
RenderRaises ==
    /\ pc = "render"
    /\ idx <= Len(all_types)
    /\ LET t == all_types[idx]
           h == group_key(t)
       IN  /\ ~skipped(h, t)
           /\ render_raises(h, t, id_map, sync)
    /\ pc' = "raised"
    /\ UNCHANGED <<schema, sync, id_map, all_types, idx, blocks, result, chain>>

\* joiner: the yielded blocks become the returned text
Join ==
    /\ pc = "render"
    /\ idx > Len(all_types)
    /\ result' = blocks
    /\ pc' = "done"
    /\ UNCHANGED <<schema, sync, id_map, all_types, idx, blocks, chain>>

(***************************************************************************)
(* The generated client at its own run time: calling a generated method on *)
(* the current handle runs the statements of its body.                      *)
(***************************************************************************)
Declared(n) ==
    \E i \in 2..Len(result) : result[i].handler = "Object" /\ result[i].name = n

ClassOf(n) ==
    result[CHOOSE i \in 2..Len(result) :
               result[i].handler = "Object" /\ result[i].name = n]

RECURSIVE run_body(_, _)
run_body(c, stmts) ==
    IF stmts = <<>> THEN c
    ELSE LET st == Head(stmts)
             c2 == CASE st.op = "_args" -> c
                     [] st.op = "_select" ->
                          [c EXCEPT !.path = Append(@, st.name)]
                     [] st.op \in {"execute_sync", "await execute"} ->
                          [c EXCEPT !.executions = @ + 1, !.status = "value"]
                     [] st.op = "return handle" ->
                          IF Declared(st.type)
                          THEN [c EXCEPT !.handle = st.type]
                          ELSE [c EXCEPT !.status = "NameError"]
         IN  run_body(c2, Tail(stmts))

\* The schema declarations behind a rendered declaration
SchemaType(n) == CHOOSE t \in Range(schema.type_map) : t.name = n

FieldNamed(decls, n) == CHOOSE d \in Range(decls) : d.name = n

CallMethod ==
    /\ pc = "done"
    /\ chain.status = "handle"
    /\ Len(chain.path) < MaxChain
    /\ \E m \in Range(ClassOf(chain.handle).members) :
          LET f == FieldNamed(
                       SchemaType(ClassOf(chain.handle).graphql_name).fields,
                       m.graphql_name)
              leaf == is_output_leaf_type(f.type)
          IN  chain' = run_body(
                  [chain EXCEPT !.leaf = @ + (IF leaf THEN 1 ELSE 0),
                                !.nonleaf = @ + (IF leaf THEN 0 ELSE 1)],
                  m.body)
    /\ UNCHANGED <<schema, sync, pc, id_map, all_types, idx, blocks, result>>

Next ==
    \/ BuildIdMap
    \/ BuildIdMapRaises
    \/ SortTypes
    \/ SkipType
    \/ RenderType
    \/ RenderRaises
    \/ Join
    \/ CallMethod

Spec == Init /\ [][Next]_vars

(***************************************************************************)
(* What has been rendered so far, with the schema declaration behind each  *)
(* rendered member.                                                         *)
(***************************************************************************)
Rendered == {blocks[i] : i \in 2..Len(blocks)}

RenderedBy(h) == {b \in Rendered : b.handler = h}

DeclNamed(decls, pyname) == CHOOSE d \in Range(decls) : format_name(d.name) = pyname

\* <<rendered field, its declaration>> for the fields of rendered input objects
InputParams ==
    UNION {{<<b.members[i],
              DeclNamed(SchemaType(b.graphql_name).fields, b.members[i].name)>> :
                i \in 1..Len(b.members)} : b \in RenderedBy("Input")}

\* <<rendered method, its field declaration>> for the rendered object types
Methods ==
    UNION {{<<b.members[i],
              FieldNamed(SchemaType(b.graphql_name).fields,
                         b.members[i].graphql_name)>> :
                i \in 1..Len(b.members)} : b \in RenderedBy("Object")}

\* <<rendered parameter, its argument declaration>> for the rendered methods
ArgParams ==
    UNION {{<<m[1].sig.params[i], DeclNamed(m[2].args, m[1].sig.params[i].name)>> :
                i \in 1..Len(m[1].sig.params)} : m \in Methods}

IndexIn(decls, pyname) ==
    CHOOSE j \in 1..Len(decls) : format_name(decls[j].name) = pyname

\* No defaulted parameter before a parameter without default
DefaultsLast(ps) ==
    \A i, j \in 1..Len(ps) : (i < j /\ ps[i].has_default) => ps[j].has_default

\* Parameters of the same group keep the relative order of their declarations
StableWithin(ps, decls) ==
    \A i, j \in 1..Len(ps) :
        (i < j /\ ps[i].has_default = ps[j].has_default)
            => IndexIn(decls, ps[i].name) < IndexIn(decls, ps[j].name)

\* C2: in every generated method signature no parameter with a default comes
\* before one without, each declared argument is listed exactly once, and
\* within the required group and within the defaulted group the parameters
\* keep the relative order of the schema's arguments.
C2_ArgumentOrdering ==
    \A m \in Methods :
        /\ Len(m[1].sig.params) = Len(m[2].args)
        /\ {p.name : p \in Range(m[1].sig.params)}
               = {format_name(a.name) : a \in Range(m[2].args)}
        /\ DefaultsLast(m[1].sig.params)
        /\ StableWithin(m[1].sig.params, m[2].args)

\* A rendered method whose schema lists a defaulted argument first and two
\* required arguments after it
C2_Witness ==
    \E m \in Methods :
        /\ Len(m[2].args) = 3
        /\ m[2].args[1].default_value # Undefined
        /\ \A k \in 2..3 : /\ is_required_type(m[2].args[k].type)
                           /\ m[2].args[k].default_value = Undefined
        /\ m[1].sig.params[1].name = format_name(m[2].args[2].name)

C4_Exclusion ==
    \A b \in Rendered :
        /\ ~startswith_dunder(b.graphql_name)
        /\ ~startswith_dunder(b.name)

\* Generation has finished over a schema holding a "__" type of each category
C4_Witness ==
    /\ pc = "done"
    /\ \A h \in Range(Handlers) :
          \E t \in Range(all_types) : startswith_dunder(t.name) /\ group_key(t) = h

\* The category of a named type, read off its kind
CategoryOf(t) ==
    CASE t.kind = "scalar" /\ t.name \notin DOMAIN ScalarsMembers -> 1
      [] t.kind = "input" -> 2
      [] t.kind = "object" -> 3
      [] OTHER -> 0

CategoryName(c) == Handlers[c]

\* C5: the rendered declarations come category by category (custom scalars,
\* input objects, objects), in ascending name order inside a category, each
\* by the handler of its type's category; when generation has finished,
\* every type of a category without the reserved prefix has been rendered
\* exactly once and no other type has.
C5_DispatchOrder ==
    /\ \A i \in 2..Len(blocks) :
          LET t == SchemaType(blocks[i].graphql_name)
          IN  /\ CategoryOf(t) # 0
              /\ blocks[i].handler = CategoryName(CategoryOf(t))
    /\ \A i, j \in 2..Len(blocks) :
          i < j =>
            LET ti == SchemaType(blocks[i].graphql_name)
                tj == SchemaType(blocks[j].graphql_name)
            IN  \/ CategoryOf(ti) < CategoryOf(tj)
                \/ /\ CategoryOf(ti) = CategoryOf(tj)
                   /\ NameRank(ti.name) < NameRank(tj.name)
    /\ pc = "done" =>
          \A t \in Range(schema.type_map) :
              (CategoryOf(t) # 0 /\ ~startswith_dunder(t.name))
                  <=> (\E b \in Rendered : b.graphql_name = t.name)

\* Generation has finished with two object types rendered in the order
\* opposite to their registration order
C5_Witness ==
    /\ pc = "done"
    /\ \E i, j \in 2..Len(blocks) :
          /\ i < j
          /\ blocks[i].graphql_name = "Container"
          /\ blocks[j].graphql_name = "Query"
    /\ \E i \in 2..Len(blocks) : blocks[i].handler = "Scalar"
    /\ \E i \in 2..Len(blocks) : blocks[i].handler = "Input"

\* The text of a rendered parameter up to its default
ParamHead(p) == p.name \o ": " \o p.type

\* C7: a rendered input field or argument with an explicit schema default is
\* rendered with that default; without one, if its type is not NonNull at
\* the outermost level it is rendered with the default None; otherwise it is
\* rendered without a default.  has-default is false exactly in the last case.
C7_DefaultPolicy ==
    \A pd \in InputParams \cup ArgParams :
        LET p == pd[1]
            d == pd[2]
        IN  /\ d.default_value # Undefined =>
                /\ p.has_default
                /\ p.text = ParamHead(p) \o " = " \o pyrepr(d.default_value)
            /\ (d.default_value = Undefined /\ ~is_required_type(d.type)) =>
                /\ p.has_default
                /\ p.text = ParamHead(p) \o " = None"
            /\ (d.default_value = Undefined /\ is_required_type(d.type)) =>
                /\ ~p.has_default
                /\ p.text = ParamHead(p)

\* One rendered method carries an argument of each of the three cases
C7_Witness ==
    \E m \in Methods :
        /\ \E a \in Range(m[2].args) : a.default_value = "v"
        /\ \E a \in Range(m[2].args) :
              a.default_value = Undefined /\ ~is_required_type(a.type)
        /\ \E a \in Range(m[2].args) :
              a.default_value = Undefined /\ is_required_type(a.type)

(***************************************************************************)
(* The type expression of reference t around the base name: " | None"      *)
(* where a level is not NonNull, "list[...]" for a List.                    *)
(***************************************************************************)
RECURSIVE Shape(_, _)
Shape(t, base) ==
    LET u == IF is_required_type(t) THEN of_type(t) ELSE t
        inner == IF is_list_type(u)
                 THEN "list[" \o Shape(of_type(u), base) \o "]" ELSE base
    IN  IF is_required_type(t) THEN inner ELSE inner \o " | None"

Quote(x) == "\"" \o x \o "\""

\* Two NonNull wrappers in a row somewhere in the reference
DoubleNonNull(t) ==
    \E i \in 1..(Len(t.wraps) - 1) : t.wraps[i] = NonNull /\ t.wraps[i + 1] = NonNull

\* The object types declaring a field named id whose innermost type is S
Owners(S) ==
    {i \in 1..Len(schema.type_map) :
        /\ schema.type_map[i].kind = "object"
        /\ \E f \in Range(schema.type_map[i].fields) :
              f.name = "id" /\ f.type.name = S}

LastOwner(S) ==
    schema.type_map[CHOOSE i \in Owners(S) : \A j \in Owners(S) : j <= i].name

\* C1 as stated, read in its favour (S a custom scalar with a single owner T,
\* inputs themselves named id set aside): every other field or argument
\* whose innermost type is S (return types, input-object fields and
\* arguments alike) is rendered with T.
C1_Original ==
    \A S \in {n \in DOMAIN KindOf : is_custom_scalar_type(Named(n))} :
        Cardinality(Owners(S)) = 1 =>
            LET o == CHOOSE i \in Owners(S) : TRUE
                T == schema.type_map[o].name
            IN  /\ \A m \in Methods :
                      (m[2].type.name = S
                         /\ ~(m[2].name = "id"
                              /\ m[2] \in Range(schema.type_map[o].fields)))
                          => m[1].sig.ret_type = Shape(m[2].type, T)
                /\ \A pd \in InputParams \cup ArgParams :
                      (pd[2].type.name = S /\ pd[2].name # "id")
                          => pd[1].type = Quote(Shape(pd[2].type, T))

\* C1 (amended): an input-object field or argument not itself named id whose
\* innermost type is a custom scalar S with an owner is rendered with the
\* last owner of S in registration order in place of S; return types of
\* custom scalar type and inputs named id keep the scalar's own name.
C1_IdSubstitution ==
    /\ \A pd \in InputParams \cup ArgParams :
          LET S == pd[2].type.name
          IN  is_custom_scalar_type(Named(S)) =>
                pd[1].type =
                    Quote(Shape(pd[2].type,
                                IF pd[2].name # "id" /\ Owners(S) # {}
                                THEN LastOwner(S) ELSE S))
    /\ \A m \in Methods :
          is_custom_scalar_type(m[2].type)
              => m[1].sig.ret_type = Shape(m[2].type, m[2].type.name)

\* A wrapped ContainerID argument or input field, owned by Container and,
\* registered later, by File, is rendered with File
C1_Witness ==
    \E pd \in InputParams \cup ArgParams :
        /\ pd[2].type.name = "ContainerID"
        /\ Len(pd[2].type.wraps) >= 2
        /\ pd[2].name # "id"
        /\ Cardinality(Owners("ContainerID")) = 2
        /\ LastOwner("ContainerID") = "File"
        /\ pd[1].type = Quote(Shape(pd[2].type, "File"))

\* C6 as stated: the fields of a rendered input object are ordered like
\* method arguments, none with a default before one without.
C6_Original ==
    \A b \in RenderedBy("Input") :
        /\ Len(b.members) = Len(SchemaType(b.graphql_name).fields)
        /\ DefaultsLast(b.members)
        /\ StableWithin(b.members, SchemaType(b.graphql_name).fields)

\* C6 (amended): a rendered input object has exactly one field per schema
\* field, in the schema's declaration order.
C6_InputDeclarationOrder ==
    \A b \in RenderedBy("Input") :
        LET fs == SchemaType(b.graphql_name).fields
        IN  /\ Len(b.members) = Len(fs)
            /\ \A i \in 1..Len(fs) : b.members[i].name = format_name(fs[i].name)

\* A rendered input object whose first field has a default and whose second
\* has none
C6_Witness ==
    \E b \in RenderedBy("Input") :
        /\ Len(b.members) >= 2
        /\ b.members[1].has_default
        /\ ~b.members[2].has_default

\* C8 as stated: a non-leaf return type is the bare innermost name; a leaf
\* return type is what the input field model gives for the same name and
\* reference under the run's id map.
C8_Original ==
    \A m \in Methods :
        IF is_output_leaf_type(m[2].type)
        THEN m[1].sig.ret_type = InputField(m[2].name, m[2], id_map).type
        ELSE m[1].sig.ret_type = Quote(m[2].type.name)

\* C8 (amended): a non-leaf return type is the bare innermost name for every
\* nesting of wrappers; a leaf return type is what input-side resolution
\* gives with an empty id map, keeping optionality and list-ness.
C8_OutputResolution ==
    \A m \in Methods :
        IF is_output_leaf_type(m[2].type)
        THEN /\ m[1].sig.ret_type = format_input_type(m[2].type, EmptyMap)
             /\ m[1].sig.ret_type =
                    Shape(m[2].type, Scalars_from_type(m[2].type.name))
        ELSE m[1].sig.ret_type = Quote(m[2].type.name)

\* A rendered leaf method of type [String]! beside a rendered non-leaf
\* method of a wrapped type
C8_Witness ==
    /\ \E m \in Methods :
          /\ is_output_leaf_type(m[2].type)
          /\ m[2].type.wraps = <<NonNull, List>>
          /\ m[1].sig.ret_type = "list[str | None]"
    /\ \E m \in Methods :
          /\ ~is_output_leaf_type(m[2].type)
          /\ m[2].type.wraps # <<>>

\* The named types generate hands to a handler
Emitted == {t \in Range(schema.type_map) : ~skipped(group_key(t), t)}

InputRefs(t) ==
    IF t.kind = "input" THEN {f.type : f \in Range(t.fields)}
    ELSE IF t.kind = "object"
    THEN UNION {{a.type : a \in Range(f.args)} : f \in Range(t.fields)}
    ELSE {}

ReturnRefs(t) ==
    IF t.kind = "object" THEN {f.type : f \in Range(t.fields)} ELSE {}

BaseNames ==
    DOMAIN KindOf \cup {ScalarsMembers[k] : k \in DOMAIN ScalarsMembers} \cup {"Client"}

Builtins == {ScalarsMembers[k] : k \in DOMAIN ScalarsMembers}

BaseOf(p, d) ==
    CHOOSE n \in BaseNames : p.type \in {Shape(d.type, n), Quote(Shape(d.type, n))}

DeclaredName(n) == \E b \in Rendered : b.name = n

\* C10: in the returned text every non-builtin type name used as a parameter
\* type, as a non-leaf return type or as the handle constructor of a
\* non-leaf method is the name of a declaration of that text.
C10_ReferenceClosure ==
    pc = "done" =>
        /\ \A pd \in InputParams \cup ArgParams :
              BaseOf(pd[1], pd[2]) \in Builtins \/ DeclaredName(BaseOf(pd[1], pd[2]))
        /\ \A m \in Methods :
              ~is_output_leaf_type(m[2].type) =>
                  /\ \E n \in BaseNames : /\ m[1].sig.ret_type = Quote(n)
                                          /\ DeclaredName(n)
                  /\ DeclaredName(m[1].body[3].type)

====
